---- MODULE Spec2Model ----
(***************************************************************************)
(* Fretboard pitch model, grid recomputation and tone playback of the      *)
(* guitar practice dashboard (src/src/music_theory.rs, src/src/audio.rs,   *)
(* src/src/main.rs).                                                       *)
(*                                                                         *)
(* Three specifications share the module.  The audio state and the grid    *)
(* state of the application are disjoint and no handler touches both, so   *)
(* each is explored on its own:                                            *)
(*   AudioSpec - run_app, the fret-click handler, the audio sink and the   *)
(*               teardown sequence;                                        *)
(*   GridSpec  - run_app, the key and scale handlers and update_fret_data; *)
(*   PitchSpec - the pure functions of music_theory.rs applied to inputs   *)
(*               drawn from bounded sets.                                  *)
(***************************************************************************)
EXTENDS Integers, Sequences, FiniteSets, TLC

VARIABLES
    run_pc,              \* position of run_app / the process
    callbacks,           \* TRUE when the handlers were registered (main.rs:296)
    audio_player,        \* "None" | "Some": the Option<Arc<AudioPlayer>> of run_app
    audio_init,          \* "pending" | "disabled" | "ok" | "failed": AudioPlayer::new
    panic,               \* "none" | "audio_init" | "index" | "update"
    stream_open,         \* the OutputStream (_stream) holds the audio device
    sink,                \* queue of the rodio Sink: sequence of pending tones
    teardown_log,        \* device events of the teardown, in order
    selected_key,        \* AppWindow property selected-key (i32)
    selected_scale,      \* AppWindow property selected-scale (i32)
    string_data,         \* AppWindow properties string_0_data .. string_5_data
    UPDATING_FRET_DATA,  \* static AtomicBool of main.rs:152
    frames,              \* stack of executions of update_fret_data's body
    last_grid,           \* inputs and displayed rows of the last finished recompute
    last_event,          \* the last handler that ran and what became of it
    pure_call,           \* PitchSpec: the function applied and its arguments
    pure_ret             \* PitchSpec: the value it returned

app_vars == <<run_pc, callbacks, audio_player, audio_init, panic, stream_open, sink,
              teardown_log, selected_key, selected_scale, string_data,
              UPDATING_FRET_DATA, frames, last_grid, last_event>>
pure_vars == <<pure_call, pure_ret>>
vars == <<app_vars, pure_vars>>

(***************************************************************************)
(* Bounds of the model.                                                    *)
(***************************************************************************)
\* Key::from_int is applied to every integer in -MaxOrdinal .. MaxOrdinal.
MaxOrdinal == 30
\* Notes of octave 0 .. MaxOctave are the valid notes that are tried.
MaxOctave == 9
\* Nested invocations of update_fret_data that are followed (call depth).
MaxDepth == 2
\* Samples the audio thread takes from the sink in one step.
RenderChunk == 6615

(***************************************************************************)
(* Integer arithmetic of Rust on i32: / and % truncate toward zero, and    *)
(* `x as u8` keeps the low eight bits.                                     *)
(***************************************************************************)
RustRem(a, b) == IF a >= 0 THEN a % b ELSE -((-a) % b)
RustDiv(a, b) == IF a >= 0 THEN a \div b ELSE -((-a) \div b)
U8_MAX == 255
as_u8(x) == x % (U8_MAX + 1)

(***************************************************************************)
(* music_theory.rs: Key                                                    *)
(***************************************************************************)
Key == {"C", "Cs", "D", "Ds", "E", "F", "Fs", "G", "Gs", "A", "As", "B"}

Key_from_int(value) ==
    CASE RustRem(value, 12) = 0 -> "C"
      [] RustRem(value, 12) = 1 -> "Cs"
      [] RustRem(value, 12) = 2 -> "D"
      [] RustRem(value, 12) = 3 -> "Ds"
      [] RustRem(value, 12) = 4 -> "E"
      [] RustRem(value, 12) = 5 -> "F"
      [] RustRem(value, 12) = 6 -> "Fs"
      [] RustRem(value, 12) = 7 -> "G"
      [] RustRem(value, 12) = 8 -> "Gs"
      [] RustRem(value, 12) = 9 -> "A"
      [] RustRem(value, 12) = 10 -> "As"
      [] RustRem(value, 12) = 11 -> "B"
      [] OTHER -> "C"

Key_to_int(k) ==
    CASE k = "C" -> 0
      [] k = "Cs" -> 1
      [] k = "D" -> 2
      [] k = "Ds" -> 3
      [] k = "E" -> 4
      [] k = "F" -> 5
      [] k = "Fs" -> 6
      [] k = "G" -> 7
      [] k = "Gs" -> 8
      [] k = "A" -> 9
      [] k = "As" -> 10
      [] k = "B" -> 11

Key_name(k) ==
    CASE k = "C" -> "C"
      [] k = "Cs" -> "C#"
      [] k = "D" -> "D"
      [] k = "Ds" -> "D#"
      [] k = "E" -> "E"
      [] k = "F" -> "F"
      [] k = "Fs" -> "F#"
      [] k = "G" -> "G"
      [] k = "Gs" -> "G#"
      [] k = "A" -> "A"
      [] k = "As" -> "A#"
      [] k = "B" -> "B"

(***************************************************************************)
(* music_theory.rs: Note                                                   *)
(***************************************************************************)
Note_new(note, octave) == [note |-> note, octave |-> octave]

Note_name(n) == Key_name(n.note) \o ToString(n.octave)

semitone_value_octave_10(n) == Key_to_int(n.note) + (n.octave * 10)

semitone_value(n) == Key_to_int(n.note) + (n.octave * 12)

(***************************************************************************)
(* music_theory.rs: Scale                                                  *)
(***************************************************************************)
Scale == {"Major", "NaturalMinor", "MajorPentatonic", "MinorPentatonic",
          "MajorBlues", "MinorBlues"}

Scale_from_int(value) ==
    CASE value = 1 -> "Major"
      [] value = 2 -> "NaturalMinor"
      [] value = 3 -> "MajorPentatonic"
      [] value = 4 -> "MinorPentatonic"
      [] value = 5 -> "MajorBlues"
      [] value = 6 -> "MinorBlues"
      [] OTHER -> "Major"

intervals(scale) ==
    CASE scale = "Major" -> <<0, 2, 4, 5, 7, 9, 11>>
      [] scale = "NaturalMinor" -> <<0, 2, 3, 5, 7, 8, 10>>
      [] scale = "MajorPentatonic" -> <<0, 2, 4, 7, 9>>
      [] scale = "MinorPentatonic" -> <<0, 3, 5, 7, 10>>
      [] scale = "MajorBlues" -> <<0, 3, 4, 7, 9>>
      [] scale = "MinorBlues" -> <<0, 3, 5, 6, 7, 10>>

(***************************************************************************)
(* music_theory.rs: the fretboard                                          *)
(***************************************************************************)
\* BASE_NOTES, indexed from 0 as in the source.
BASE_NOTES ==
    [s \in 0..5 |->
        CASE s = 0 -> [note |-> "E", octave |-> 2]
          [] s = 1 -> [note |-> "A", octave |-> 2]
          [] s = 2 -> [note |-> "D", octave |-> 3]
          [] s = 3 -> [note |-> "G", octave |-> 3]
          [] s = 4 -> [note |-> "B", octave |-> 3]
          [] s = 5 -> [note |-> "E", octave |-> 4]]

\* BASE_NOTES[string as usize] panics when the index is not below the length.
index_in_bounds(string) == string \in DOMAIN BASE_NOTES

\* Lines 178-181: a semitone count is split into pitch class and octave.
note_from_semitones(semitones) ==
    LET note_value == RustRem(semitones, 12)
        octave == RustDiv(semitones, 12)
    IN  Note_new(Key_from_int(note_value), octave)

get_note_at_position_no_carry(string, fret) ==
    LET base == BASE_NOTES[string]
        semitones == Key_to_int(base.note) + (base.octave * 12) + fret
    IN  Note_new(Key_from_int(RustRem(semitones, 12)), base.octave)

\* string and fret are the u8 arguments; string must satisfy index_in_bounds.
get_note_at_position(string, fret) ==
    LET base == BASE_NOTES[string]
        semitones == Key_to_int(base.note) + (base.octave * 12) + fret
    IN  note_from_semitones(semitones)

is_note_in_scale_no_wrap(note, key, scale) ==
    LET ivs == intervals(scale)
    IN  \E i \in 1..Len(ivs) : Key_to_int(key) + ivs[i] = Key_to_int(note.note)

is_note_in_scale(note, key, scale) ==
    LET ivs == intervals(scale)
        key_offset == Key_to_int(key)
        note_value == Key_to_int(note.note)
    IN  \E i \in 1..Len(ivs) : RustRem(key_offset + ivs[i], 12) = note_value

(***************************************************************************)
(* music_theory.rs: calculate_frequency, in fixed point.  The result is in *)
(* millihertz: 440 * 2^(d/12) with d = 12*q + r, 0 <= r < 12, is           *)
(* 440 * 2^(r/12) * 2^q, and 2^(r/12) is tabulated to six decimals.        *)
(***************************************************************************)
Pow2Twelfth ==
    <<1000000, 1059463, 1122462, 1189207, 1259921, 1334840,
      1414214, 1498307, 1587401, 1681793, 1781797, 1887749>>

RECURSIVE Pow2(_)
Pow2(n) == IF n = 0 THEN 1 ELSE 2 * Pow2(n - 1)

\* A4 taken at its MIDI number, as the comment of line 217 has it.
calculate_frequency_midi_69(note) ==
    LET a4_semitone == 69
        note_semitone == semitone_value(note)
        semitones_above_a4 == note_semitone - a4_semitone
        q == semitones_above_a4 \div 12
        r == semitones_above_a4 % 12
        milli == (440 * Pow2Twelfth[r + 1]) \div 1000
    IN  IF q >= 0 THEN milli * Pow2(q) ELSE milli \div Pow2(-q)

calculate_frequency(note) ==
    LET a4_semitone == semitone_value(Note_new("A", 4))
        note_semitone == semitone_value(note)
        semitones_above_a4 == note_semitone - a4_semitone
        q == semitones_above_a4 \div 12
        r == semitones_above_a4 % 12
        milli == (440 * Pow2Twelfth[r + 1]) \div 1000
    IN  IF q >= 0 THEN milli * Pow2(q) ELSE milli \div Pow2(-q)

(***************************************************************************)
(* music_theory.rs: fret markers                                           *)
(***************************************************************************)
get_marked_frets_no_octave == <<3, 5, 7, 9, 15, 17, 19, 21>>

get_marked_frets == <<3, 5, 7, 9, 12, 15, 17, 19, 21>>

\* get_marked_frets().contains(&fret)
is_fret_marked(fret) ==
    \E i \in 1..Len(get_marked_frets) : get_marked_frets[i] = fret

(***************************************************************************)
(* audio.rs: the sink and the player                                       *)
(***************************************************************************)
\* sample_rate of AudioPlayer::new and the duration given to take_duration.
SAMPLE_RATE == 44100
TONE_MILLIS == 300

\* SineWave::new: the generator starts at sample index 0.
SineWave_new(frequency, sample_rate) ==
    [frequency |-> frequency, sample_rate |-> sample_rate, current_sample |-> 0]

\* Iterator::next of SineWave: a sample is always yielded (Some) and the
\* index advances by one; there is no branch that yields None.
SineWave_next(w) ==
    [item |-> "Some", source |-> [w EXCEPT !.current_sample = @ + 1]]

take_duration_seconds(frequency) ==
    LET w == SineWave_new(frequency, SAMPLE_RATE)
    IN  [frequency |-> w.frequency, sample_rate |-> w.sample_rate,
         current_sample |-> w.current_sample,
         remaining |-> w.sample_rate * TONE_MILLIS]

\* SineWave::new(frequency, sample_rate).take_duration(300 ms): the generator
\* and the samples the sink will take from it before the source ends.
take_duration(frequency) ==
    LET w == SineWave_new(frequency, SAMPLE_RATE)
    IN  [frequency |-> w.frequency, sample_rate |-> w.sample_rate,
         current_sample |-> w.current_sample,
         remaining |-> (w.sample_rate * TONE_MILLIS) \div 1000]

\* next of the truncated source: None once the duration is used up, otherwise
\* the generator's sample.
TakeDuration_next(t) ==
    IF t.remaining = 0
    THEN [item |-> "None", source |-> t]
    ELSE [item |-> SineWave_next(t).item,
          source |-> [SineWave_next(t).source EXCEPT !.remaining = @ - 1]]

\* n successive calls of TakeDuration_next, in closed form.
TakeDuration_take(t, n) ==
    LET k == IF t.remaining < n THEN t.remaining ELSE n
    IN  [t EXCEPT !.current_sample = @ + k, !.remaining = @ - k]

\* Sink::stop: the queue is cleared.   Sink::append: the source is queued.
Sink_stop(s) == <<>>
Sink_append(s, source) == Append(s, source)

play_note_no_stop(s, frequency) == Sink_append(s, take_duration(frequency))

play_note(s, frequency) == Sink_append(Sink_stop(s), take_duration(frequency))

\* AudioPlayer::new: Ok exactly when the stream and the sink could be created.
AudioPlayer_new(device) == IF device THEN "Ok" ELSE "Err"

(***************************************************************************)
(* main.rs: the fret grid                                                  *)
(***************************************************************************)
STRING_COUNT == 6
FRET_COUNT == 25

generate_string_data_24(string, key, scale) ==
    [i \in 1..(FRET_COUNT - 1) |->
        LET fret == i - 1
            note == get_note_at_position(as_u8(string), as_u8(fret))
        IN  [string |-> string, fret |-> fret, note_name |-> Note_name(note),
             is_in_scale |-> is_note_in_scale(note, key, scale)]]

\* The Vec built by the loop `for fret in 0..25`, as a sequence.
generate_string_data(string, key, scale) ==
    [i \in 1..FRET_COUNT |->
        LET fret == i - 1
            note == get_note_at_position(as_u8(string), as_u8(fret))
        IN  [string |-> string, fret |-> fret, note_name |-> Note_name(note),
             is_in_scale |-> is_note_in_scale(note, key, scale)]]

compare_exchange_always(flag) == [ok |-> TRUE, flag |-> TRUE]

\* UPDATING_FRET_DATA.compare_exchange(false, true, SeqCst, SeqCst)
compare_exchange(flag) == [ok |-> (flag = FALSE), flag |-> TRUE]

FretDataUpdateGuard_leak(flag) == flag

\* impl Drop for FretDataUpdateGuard: UPDATING_FRET_DATA.store(false, SeqCst)
FretDataUpdateGuard_drop(flag) == FALSE

(***************************************************************************)
(* Inputs of the host: the integers the window hands to the handlers.      *)
(***************************************************************************)
KeyInts == {0, 4, 12}
ScaleInts == {1, 2}
ClickStrings == {0, 5, 256, -1}
ClickFrets == {0, 12, 261}

NoGrid == [done |-> FALSE]
NoEvent == [handler |-> "none", outcome |-> "none", nested |-> FALSE]
EmptyRows == [s \in 0..(STRING_COUNT - 1) |-> <<>>]

\* The state at the entry of run_app.  The initial selected-key and
\* selected-scale are properties of the window, set by its markup; any of the
\* values the handlers can be given is allowed.
Init ==
    /\ run_pc = "start"
    /\ callbacks = FALSE
    /\ audio_player = "None"
    /\ audio_init = "pending"
    /\ panic = "none"
    /\ stream_open = FALSE
    /\ sink = <<>>
    /\ teardown_log = <<>>
    /\ selected_key \in KeyInts
    /\ selected_scale \in ScaleInts
    /\ string_data = EmptyRows
    /\ UPDATING_FRET_DATA = FALSE
    /\ frames = <<>>
    /\ last_grid = NoGrid
    /\ last_event = NoEvent
    /\ pure_call = [op |-> "none"]
    /\ pure_ret = "none"

grid_vars == <<selected_key, selected_scale, string_data, UPDATING_FRET_DATA,
               frames, last_grid>>
audio_vars == <<audio_player, audio_init, stream_open, sink>>

(***************************************************************************)
(* run_app, steps 1 to 8: the window, the audio player, the empty rows and *)
(* the handlers.                                                           *)
(***************************************************************************)
run_app_init(disable_audio, disable_callbacks, device) ==
    /\ run_pc = "start"
    /\ run_pc' = "running"
    /\ audio_init' = IF disable_audio THEN "disabled"
                     ELSE IF AudioPlayer_new(device) = "Ok" THEN "ok" ELSE "failed"
    /\ audio_player' = IF ~disable_audio /\ AudioPlayer_new(device) = "Ok"
                       THEN "Some" ELSE "None"
    /\ stream_open' = (~disable_audio /\ AudioPlayer_new(device) = "Ok")
    /\ string_data' = EmptyRows
    /\ callbacks' = ~disable_callbacks
    /\ UNCHANGED <<panic, sink, teardown_log, selected_key, selected_scale,
                   UPDATING_FRET_DATA, frames, last_grid, last_event>>
    /\ UNCHANGED pure_vars

\* impl Default for AudioPlayer: the second constructor of the module.  main.rs
\* constructs its player through AudioPlayer::new (run_app_init) and has no call
\* of default(); a host that constructs the player this way goes on as run_app
\* does when the device is there, and panics when it is not.
AudioPlayer_default(device) ==
    /\ run_pc = "start"
    /\ IF AudioPlayer_new(device) = "Ok"
       THEN /\ run_pc' = "running"
            /\ audio_init' = "ok"
            /\ audio_player' = "Some"
            /\ stream_open' = TRUE
            /\ panic' = "none"
       ELSE /\ run_pc' = "panicked"
            /\ audio_init' = "failed"
            /\ audio_player' = "None"
            /\ stream_open' = FALSE
            /\ panic' = "audio_init"
    /\ string_data' = EmptyRows
    /\ callbacks' = TRUE
    /\ UNCHANGED <<sink, teardown_log, selected_key, selected_scale,
                   UPDATING_FRET_DATA, frames, last_grid, last_event>>
    /\ UNCHANGED pure_vars

\* The UI thread is between two events: the handlers are registered, the event
\* loop runs and no handler is on the stack.
ui_idle == run_pc = "running" /\ callbacks /\ frames = <<>>

(***************************************************************************)
(* on_fret_clicked                                                         *)
(***************************************************************************)
on_fret_clicked(string, fret) ==
    /\ ui_idle
    /\ IF ~index_in_bounds(as_u8(string))
       THEN /\ panic' = "index"
            /\ run_pc' = "panicked"
            /\ sink' = sink
            /\ last_event' = [handler |-> "fret_clicked", outcome |-> "panicked",
                              nested |-> FALSE, string |-> string, fret |-> fret]
       ELSE LET note == get_note_at_position(as_u8(string), as_u8(fret))
                frequency == calculate_frequency(note)
            IN  /\ UNCHANGED <<panic, run_pc>>
                /\ IF audio_player = "Some"
                   THEN /\ sink' = play_note(sink, frequency)
                        /\ last_event' = [handler |-> "fret_clicked",
                                          outcome |-> IF sink = <<>> THEN "played"
                                                      ELSE "preempted",
                                          nested |-> FALSE,
                                          string |-> string, fret |-> fret,
                                          frequency |-> frequency,
                                          previous |-> sink]
                   ELSE /\ sink' = sink
                        /\ last_event' = [handler |-> "fret_clicked",
                                          outcome |-> "noop", nested |-> FALSE,
                                          string |-> string, fret |-> fret]
    /\ UNCHANGED <<callbacks, audio_player, audio_init, stream_open, teardown_log>>
    /\ UNCHANGED grid_vars
    /\ UNCHANGED pure_vars

\* The audio thread takes the next samples of the tone at the head of the queue;
\* a tone whose take_duration is used up ends and leaves the queue.
audio_render ==
    /\ run_pc \in {"running", "returned", "cleaned", "slept"}
    /\ stream_open
    /\ sink # <<>>
    /\ LET t == TakeDuration_take(sink[1], RenderChunk)
       IN  sink' = IF TakeDuration_next(t).item = "None"
                   THEN Tail(sink)
                   ELSE <<t>> \o Tail(sink)
    /\ UNCHANGED <<run_pc, callbacks, audio_player, audio_init, panic, stream_open,
                   teardown_log, last_event>>
    /\ UNCHANGED grid_vars
    /\ UNCHANGED pure_vars

(***************************************************************************)
(* update_fret_data and the two selection handlers.  A frame of `frames`   *)
(* is one execution of the body of update_fret_data that has passed the    *)
(* compare_exchange: the key and scale it read, the six rows it generated  *)
(* and the index of the next string property it will set.  A handler can   *)
(* run while a frame is on the stack: this is the recursive call the flag  *)
(* is there to stop (main.rs:150-159).                                     *)
(***************************************************************************)
new_frame(key_int, scale_int) ==
    LET key == Key_from_int(key_int)
        scale == Scale_from_int(scale_int)
    IN  [key |-> key, scale |-> scale,
         data |-> [s \in 0..(STRING_COUNT - 1) |-> generate_string_data(s, key, scale)],
         next |-> 0]

\* update_fret_data up to the first set_string_N_data, with the selection
\* (key_int, scale_int) the window holds when it is called.
update_fret_data(handler, key_int, scale_int) ==
    LET cas == compare_exchange(UPDATING_FRET_DATA)
    IN  IF ~cas.ok
        THEN /\ UNCHANGED <<UPDATING_FRET_DATA, frames>>
             /\ last_event' = [handler |-> handler, outcome |-> "dropped",
                               nested |-> frames # <<>>]
        ELSE /\ UPDATING_FRET_DATA' = cas.flag
             /\ frames' = Append(frames, new_frame(key_int, scale_int))
             /\ last_event' = [handler |-> handler, outcome |-> "accepted",
                               nested |-> frames # <<>>]

handler_enabled == run_pc = "running" /\ callbacks /\ Len(frames) < MaxDepth

on_key_selected_stale(key_int) ==
    /\ handler_enabled
    /\ IF selected_key # key_int
       THEN /\ selected_key' = key_int
            /\ update_fret_data("key_selected", selected_key, selected_scale)
       ELSE /\ UNCHANGED <<selected_key, UPDATING_FRET_DATA, frames>>
            /\ last_event' = [handler |-> "key_selected", outcome |-> "unchanged",
                              nested |-> frames # <<>>]
    /\ UNCHANGED <<selected_scale, string_data, last_grid>>
    /\ UNCHANGED <<run_pc, callbacks, panic, teardown_log>>
    /\ UNCHANGED audio_vars
    /\ UNCHANGED pure_vars

\* The key-selected handler (main.rs:341-348): the selection is stored first,
\* then update_fret_data reads it back (main.rs:164).
on_key_selected(key_int) ==
    /\ handler_enabled
    /\ IF selected_key # key_int
       THEN /\ selected_key' = key_int
            /\ update_fret_data("key_selected", key_int, selected_scale)
       ELSE /\ UNCHANGED <<selected_key, UPDATING_FRET_DATA, frames>>
            /\ last_event' = [handler |-> "key_selected", outcome |-> "unchanged",
                              nested |-> frames # <<>>]
    /\ UNCHANGED <<selected_scale, string_data, last_grid>>
    /\ UNCHANGED <<run_pc, callbacks, panic, teardown_log>>
    /\ UNCHANGED audio_vars
    /\ UNCHANGED pure_vars

on_scale_selected(scale_int) ==
    /\ handler_enabled
    /\ IF selected_scale # scale_int
       THEN /\ selected_scale' = scale_int
            /\ update_fret_data("scale_selected", selected_key, scale_int)
       ELSE /\ UNCHANGED <<selected_scale, UPDATING_FRET_DATA, frames>>
            /\ last_event' = [handler |-> "scale_selected", outcome |-> "unchanged",
                              nested |-> frames # <<>>]
    /\ UNCHANGED <<selected_key, string_data, last_grid>>
    /\ UNCHANGED <<run_pc, callbacks, panic, teardown_log>>
    /\ UNCHANGED audio_vars
    /\ UNCHANGED pure_vars

\* The innermost body sets its next string property (main.rs:176-181); after
\* the sixth it returns and its FretDataUpdateGuard is dropped.
set_string_data ==
    /\ run_pc = "running"
    /\ frames # <<>>
    /\ LET top == frames[Len(frames)]
           i == top.next
       IN  /\ string_data' = [string_data EXCEPT ![i] = top.data[i]]
           /\ IF i < STRING_COUNT - 1
              THEN /\ frames' = [frames EXCEPT ![Len(frames)].next = i + 1]
                   /\ UNCHANGED <<UPDATING_FRET_DATA, last_grid>>
              ELSE /\ frames' = SubSeq(frames, 1, Len(frames) - 1)
                   /\ UPDATING_FRET_DATA' = FretDataUpdateGuard_drop(UPDATING_FRET_DATA)
                   /\ last_grid' = [done |-> TRUE, key |-> top.key, scale |-> top.scale,
                                    rows |-> string_data']
    /\ UNCHANGED <<selected_key, selected_scale, last_event>>
    /\ UNCHANGED <<run_pc, callbacks, panic, teardown_log>>
    /\ UNCHANGED audio_vars
    /\ UNCHANGED pure_vars

\* A call made by the body in flight panics.  The stack unwinds: the
\* FretDataUpdateGuard of every body on it is dropped (main.rs:184-191), the
\* rows set so far stay, and the panic leaves the handler and ends the process.
body_panics ==
    /\ run_pc = "running"
    /\ frames # <<>>
    /\ frames' = <<>>
    /\ UPDATING_FRET_DATA' = FretDataUpdateGuard_drop(UPDATING_FRET_DATA)
    /\ panic' = "update"
    /\ run_pc' = "panicked"
    /\ UNCHANGED <<selected_key, selected_scale, string_data, last_grid, last_event>>
    /\ UNCHANGED <<callbacks, teardown_log>>
    /\ UNCHANGED audio_vars
    /\ UNCHANGED pure_vars

(***************************************************************************)
(* Teardown: app.run() returns, cleanup, the 50 ms sleep, and the drop of  *)
(* the player when run_app returns.                                        *)
(***************************************************************************)
return_from_run ==
    /\ run_pc = "running"
    /\ frames = <<>>
    /\ run_pc' = "returned"
    /\ UNCHANGED <<callbacks, panic, teardown_log, last_event>>
    /\ UNCHANGED audio_vars
    /\ UNCHANGED grid_vars
    /\ UNCHANGED pure_vars

\* AudioPlayer::cleanup(&self): the sink is stopped; nothing is dropped.
cleanup ==
    /\ run_pc = "returned"
    /\ run_pc' = "cleaned"
    /\ IF audio_player = "Some"
       THEN /\ sink' = Sink_stop(sink)
            /\ teardown_log' = Append(teardown_log, "stop")
       ELSE UNCHANGED <<sink, teardown_log>>
    /\ UNCHANGED <<callbacks, panic, last_event, audio_player, audio_init, stream_open>>
    /\ UNCHANGED grid_vars
    /\ UNCHANGED pure_vars

\* std::thread::sleep(50 ms) of run_app.
grace_sleep ==
    /\ run_pc = "cleaned"
    /\ run_pc' = "slept"
    /\ teardown_log' = Append(teardown_log, "sleep")
    /\ UNCHANGED <<callbacks, panic, last_event>>
    /\ UNCHANGED audio_vars
    /\ UNCHANGED grid_vars
    /\ UNCHANGED pure_vars

\* run_app returns and its locals are dropped.  Drop for AudioPlayer stops the
\* sink and sleeps 30 ms; the fields are dropped after the body of drop, and
\* only then is _stream, and with it the device, released.
drop_audio_player ==
    /\ run_pc = "slept"
    /\ run_pc' = "exited"
    /\ IF audio_player = "Some"
       THEN /\ sink' = Sink_stop(sink)
            /\ teardown_log' = teardown_log \o <<"stop", "sleep", "release">>
            /\ stream_open' = FALSE
       ELSE UNCHANGED <<sink, teardown_log, stream_open>>
    /\ UNCHANGED <<callbacks, panic, last_event, audio_player, audio_init>>
    /\ UNCHANGED grid_vars
    /\ UNCHANGED pure_vars

AudioNext ==
    \/ \E disable_audio \in BOOLEAN, disable_callbacks \in BOOLEAN, device \in BOOLEAN :
          run_app_init(disable_audio, disable_callbacks, device)
    \/ \E device \in BOOLEAN : AudioPlayer_default(device)
    \/ \E string \in ClickStrings, fret \in ClickFrets : on_fret_clicked(string, fret)
    \/ audio_render
    \/ return_from_run
    \/ cleanup
    \/ grace_sleep
    \/ drop_audio_player

AudioInit == Init /\ selected_key = 0 /\ selected_scale = 1

AudioSpec == AudioInit /\ [][AudioNext]_vars

\* The audio backend runs on its own thread for as long as the output stream
\* is open, so a non-empty queue keeps being rendered.
AudioLiveSpec == AudioInit /\ [][AudioNext]_vars /\ WF_vars(audio_render)

GridNext ==
    \/ \E disable_callbacks \in BOOLEAN : run_app_init(TRUE, disable_callbacks, FALSE)
    \/ \E key_int \in KeyInts : on_key_selected(key_int)
    \/ \E scale_int \in ScaleInts : on_scale_selected(scale_int)
    \/ set_string_data
    \/ body_panics
    \/ return_from_run

GridSpec == Init /\ [][GridNext]_vars

\* The same handlers with every event delivered after the previous handler has
\* returned: no event arrives while a body is in flight.
GridSeqNext ==
    \/ \E disable_callbacks \in BOOLEAN : run_app_init(TRUE, disable_callbacks, FALSE)
    \/ \E key_int \in KeyInts : frames = <<>> /\ on_key_selected(key_int)
    \/ \E scale_int \in ScaleInts : frames = <<>> /\ on_scale_selected(scale_int)
    \/ set_string_data
    \/ body_panics
    \/ return_from_run

GridSeqSpec == Init /\ [][GridSeqNext]_vars

(***************************************************************************)
(* PitchSpec: the pure functions applied to inputs from bounded sets.      *)
(***************************************************************************)
Octaves == 0..MaxOctave

call_Key_from_int(value) ==
    /\ pure_call.op = "none"
    /\ pure_call' = [op |-> "Key_from_int", value |-> value]
    /\ pure_ret' = Key_from_int(value)
    /\ UNCHANGED app_vars

\* semitone_value, and the value split again as lines 178-181 split it.
call_semitone_value(note) ==
    /\ pure_call.op = "none"
    /\ pure_call' = [op |-> "semitone_value", note |-> note]
    /\ pure_ret' = [value |-> semitone_value(note),
                    back |-> note_from_semitones(semitone_value(note))]
    /\ UNCHANGED app_vars

call_get_note_at_position(string, fret) ==
    /\ pure_call.op = "none"
    /\ pure_call' = [op |-> "get_note_at_position", string |-> string, fret |-> fret]
    /\ pure_ret' = IF index_in_bounds(string)
                   THEN [panic |-> FALSE, note |-> get_note_at_position(string, fret)]
                   ELSE [panic |-> TRUE]
    /\ UNCHANGED app_vars

call_is_note_in_scale(note, key, scale) ==
    /\ pure_call.op = "none"
    /\ pure_call' = [op |-> "is_note_in_scale", note |-> note, key |-> key,
                     scale |-> scale]
    /\ pure_ret' = is_note_in_scale(note, key, scale)
    /\ UNCHANGED app_vars

call_is_fret_marked(fret) ==
    /\ pure_call.op = "none"
    /\ pure_call' = [op |-> "is_fret_marked", fret |-> fret]
    /\ pure_ret' = is_fret_marked(fret)
    /\ UNCHANGED app_vars

call_calculate_frequency(note) ==
    /\ pure_call.op = "none"
    /\ pure_call' = [op |-> "calculate_frequency", note |-> note]
    /\ pure_ret' = calculate_frequency(note)
    /\ UNCHANGED app_vars

PitchInit == Init /\ selected_key = 0 /\ selected_scale = 1

PitchNext ==
    \/ \E value \in (-MaxOrdinal)..MaxOrdinal : call_Key_from_int(value)
    \/ \E k \in Key, o \in Octaves : call_semitone_value(Note_new(k, o))
    \/ \E string \in 0..STRING_COUNT, fret \in 0..U8_MAX :
          call_get_note_at_position(string, fret)
    \/ \E k \in Key, o \in Octaves, key \in Key, scale \in Scale :
          call_is_note_in_scale(Note_new(k, o), key, scale)
    \/ \E fret \in 0..U8_MAX : call_is_fret_marked(fret)
    \/ \E k \in Key, o \in Octaves : call_calculate_frequency(Note_new(k, o))

PitchSpec == PitchInit /\ [][PitchNext]_vars

(***************************************************************************)
(* Reference notions the properties are stated with: the ordinal of a      *)
(* pitch class, floor division and floor modulo (\div and % of TLA+), and  *)
(* the standard tuning E2 A2 D3 G3 B3 E4.                                  *)
(***************************************************************************)
KeyOrder == <<"C", "Cs", "D", "Ds", "E", "F", "Fs", "G", "Gs", "A", "As", "B">>
Ordinal(k) == CHOOSE i \in 0..11 : KeyOrder[i + 1] = k
RefSemitone(n) == Ordinal(n.note) + 12 * n.octave
RefNote(v) == [note |-> KeyOrder[(v % 12) + 1], octave |-> v \div 12]
StandardTuning ==
    <<[note |-> "E", octave |-> 2], [note |-> "A", octave |-> 2],
      [note |-> "D", octave |-> 3], [note |-> "G", octave |-> 3],
      [note |-> "B", octave |-> 3], [note |-> "E", octave |-> 4]>>
RefNoteAt(string, fret) == RefNote(RefSemitone(StandardTuning[string + 1]) + fret)
IntervalSet(scale) == {intervals(scale)[i] : i \in 1..Len(intervals(scale))}
RefInScale(n, key, scale) == ((Ordinal(n.note) - Ordinal(key)) % 12) \in IntervalSet(scale)
ValidNotes == {Note_new(k, o) : k \in Key, o \in Octaves}

(***************************************************************************)
(* C1  Playback is monophonic, last write wins: the sink never holds more  *)
(* than one tone; a play leaves exactly the tone of the frequency just     *)
(* requested in the sink, whatever was pending before; and after a play a  *)
(* pending tone is the one of that play.                   (AudioSpec)     *)
(***************************************************************************)
Played == last_event.handler = "fret_clicked"
          /\ last_event.outcome \in {"played", "preempted"}

C1_MonophonicLastWriteWins ==
    /\ [](/\ Len(sink) <= 1
          /\ ((sink # <<>> /\ Played) => sink[1].frequency = last_event.frequency))
    /\ [][\A string \in ClickStrings, fret \in ClickFrets :
            (on_fret_clicked(string, fret) /\ audio_player = "Some"
             /\ index_in_bounds(as_u8(string)))
            => sink' = <<take_duration(last_event'.frequency)>>]_vars

\* A second play arrived while the tone of another frequency was pending, and
\* only the second tone is in the sink.
C1_Witness ==
    /\ Played
    /\ last_event.outcome = "preempted"
    /\ last_event.previous # <<>>
    /\ last_event.previous[1].frequency # last_event.frequency
    /\ sink = <<take_duration(last_event.frequency)>>

(***************************************************************************)
(* C2  A failed audio initialization is never fatal: the player is absent, *)
(* nothing panics because of it and no tone ever reaches the sink.         *)
(*                                                          (AudioSpec)    *)
(***************************************************************************)
C2_InitFailureNeverFatal ==
    audio_init = "failed"
    => /\ panic # "audio_init"
       /\ audio_player = "None"
       /\ sink = <<>>

(***************************************************************************)
(* C3  Teardown is stop, release, grace delay: once cleanup has run the    *)
(* device is released, and at exit a sleep has followed the release.       *)
(*                                                          (AudioSpec)    *)
(***************************************************************************)
C3_StopReleaseDelay ==
    audio_player = "Some"
    => /\ (run_pc \in {"cleaned", "slept", "exited"} => ~stream_open)
       /\ (run_pc = "exited"
           => \E i, j \in 1..Len(teardown_log) :
                 /\ i < j
                 /\ teardown_log[i] = "release"
                 /\ teardown_log[j] = "sleep")

(***************************************************************************)
(* C4  Grid recomputation is single-flight: at most one body of            *)
(* update_fret_data is in progress; a request that arrives while one is in *)
(* flight is dropped and changes neither the body in flight nor the rows;  *)
(* and a body starts only on a request that arrives when none is in        *)
(* flight, so a dropped request is never run later.         (GridSpec)     *)
(***************************************************************************)
\* A step in which a handler calls update_fret_data: the handlers call it
\* exactly when they change the selection.
Request == selected_key' # selected_key \/ selected_scale' # selected_scale

C4_SingleFlight ==
    /\ [](Len(frames) <= 1)
    /\ [][(Request /\ frames # <<>>)
            => /\ last_event'.outcome = "dropped"
               /\ UNCHANGED <<frames, string_data, UPDATING_FRET_DATA, last_grid>>]_vars
    /\ [][(Len(frames') > Len(frames)) => (Request /\ frames = <<>>)]_vars

\* A request was dropped while a body is in flight.
C4_Witness ==
    /\ Len(frames) = 1
    /\ last_event.outcome = "dropped"
    /\ last_event.nested

(***************************************************************************)
(* C5  get_note_at_position(string, fret) returns the note whose semitone  *)
(* value is that of the string's base note plus fret, for every string     *)
(* 0..5 and every fret; (0,0) = E2, (0,5) = A2, (5,0) = E4; twelve frets   *)
(* up is the same pitch class one octave higher.            (PitchSpec)    *)
(***************************************************************************)
C5_NoteAtPosition ==
    (pure_call.op = "get_note_at_position" /\ pure_call.string \in 0..5)
    => LET s == pure_call.string
           f == pure_call.fret
       IN  /\ ~pure_ret.panic
           /\ pure_ret.note.note \in Key
           /\ RefSemitone(pure_ret.note) = RefSemitone(StandardTuning[s + 1]) + f
           /\ (f + 12 <= U8_MAX
               => /\ get_note_at_position(s, f + 12).note = pure_ret.note.note
                  /\ get_note_at_position(s, f + 12).octave = pure_ret.note.octave + 1)
           /\ (s = 0 /\ f = 0 => pure_ret.note = [note |-> "E", octave |-> 2])
           /\ (s = 0 /\ f = 5 => pure_ret.note = [note |-> "A", octave |-> 2])
           /\ (s = 5 /\ f = 0 => pure_ret.note = [note |-> "E", octave |-> 4])

\* String 0 at fret 12 was asked for and E3 came back.
C5_Witness ==
    /\ pure_call.op = "get_note_at_position"
    /\ pure_call.string = 0
    /\ pure_call.fret = 12
    /\ pure_ret = [panic |-> FALSE, note |-> [note |-> "E", octave |-> 3]]

(***************************************************************************)
(* C6  is_note_in_scale(note, key, scale) is true exactly when             *)
(* (ordinal(note) - ordinal(key)) mod 12 is one of the scale's intervals;  *)
(* the octave of the note does not matter; in C Major it is true for       *)
(* C D E F G A B and false for the five sharps.             (PitchSpec)    *)
(***************************************************************************)
C6_InScale ==
    pure_call.op = "is_note_in_scale"
    => LET n == pure_call.note
           key == pure_call.key
           scale == pure_call.scale
       IN  /\ pure_ret = RefInScale(n, key, scale)
           /\ \A o \in Octaves :
                 is_note_in_scale(Note_new(n.note, o), key, scale) = pure_ret
           /\ (key = "C" /\ scale = "Major"
               => pure_ret = (n.note \in {"C", "D", "E", "F", "G", "A", "B"}))

\* C#5 was tested against B Major, whose third degree wraps past B: in scale.
C6_Witness ==
    /\ pure_call.op = "is_note_in_scale"
    /\ pure_call.note = [note |-> "Cs", octave |-> 5]
    /\ pure_call.key = "B"
    /\ pure_call.scale = "Major"
    /\ pure_ret = TRUE

(***************************************************************************)
(* C7  Key::from_int reduces with floor modulo 12: for every integer n,    *)
(* negative ones included, the class returned has ordinal floorMod(n, 12). *)
(*                                                          (PitchSpec)    *)
(***************************************************************************)
C7_FloorModulo ==
    pure_call.op = "Key_from_int"
    => /\ pure_ret \in Key
       /\ Ordinal(pure_ret) = pure_call.value % 12

(***************************************************************************)
(* C8  Key::from_int is 12-periodic over all integers:                     *)
(* from_int(n) = from_int(n + 12).                          (PitchSpec)    *)
(***************************************************************************)
C8_TwelvePeriodic ==
    pure_call.op = "Key_from_int"
    => pure_ret = Key_from_int(pure_call.value + 12)

(***************************************************************************)
(* C9  Round trip: for every valid note, splitting semitone_value(note)    *)
(* into (value % 12, value / 12) gives the note back, and no other valid   *)
(* note has the same semitone value.                        (PitchSpec)    *)
(***************************************************************************)
C9_RoundTrip ==
    pure_call.op = "semitone_value"
    => /\ pure_ret.back = pure_call.note
       /\ \A m \in ValidNotes :
             semitone_value(m) = pure_ret.value => m = pure_call.note

\* B9, the highest note tried: value 119, and B9 comes back.
C9_Witness ==
    /\ pure_call.op = "semitone_value"
    /\ pure_call.note = [note |-> "B", octave |-> MaxOctave]
    /\ pure_ret.value = 11 + 12 * MaxOctave
    /\ pure_ret.back = pure_call.note

(***************************************************************************)
(* C10  Every grid update_fret_data generates is rectangular, 6 strings by *)
(* 25 frets, each cell holding the note at its position and whether that   *)
(* note is in the scale; and a call with the key and scale of the last     *)
(* finished call generates the grid that call left.         (GridSpec)     *)
(***************************************************************************)
GridCells(rows) == UNION {{<<s, i>> : i \in DOMAIN rows[s]} : s \in DOMAIN rows}

GridOf(rows, key, scale) ==
    /\ DOMAIN rows = 0..5
    /\ \A s \in 0..5 : DOMAIN rows[s] = 1..25
    /\ Cardinality(GridCells(rows)) = 6 * 25
    /\ \A s \in 0..5 : \A f \in 0..24 :
          /\ rows[s][f + 1].string = s
          /\ rows[s][f + 1].fret = f
          /\ rows[s][f + 1].note_name = Note_name(RefNoteAt(s, f))
          /\ rows[s][f + 1].is_in_scale = RefInScale(RefNoteAt(s, f), key, scale)

C10_GridRectangularAndPure ==
    /\ last_grid.done => GridOf(last_grid.rows, last_grid.key, last_grid.scale)
    /\ \A d \in 1..Len(frames) :
          /\ GridOf(frames[d].data, frames[d].key, frames[d].scale)
          /\ (last_grid.done /\ frames[d].key = last_grid.key
              /\ frames[d].scale = last_grid.scale)
             => frames[d].data = last_grid.rows

\* A second call with the key and scale of the finished one has generated its
\* rows: selected-key went from 0 to 12, both the key C.
C10_Witness ==
    /\ last_grid.done
    /\ Len(frames) = 1
    /\ frames[1].key = last_grid.key
    /\ frames[1].scale = last_grid.scale
    /\ frames[1].data = last_grid.rows
    /\ last_event.outcome = "accepted"

(***************************************************************************)
(* C11  An out-of-range string index fails fast: a fret click whose string *)
(* index is outside 0 .. 5 aborts in get_note_at_position and plays no     *)
(* tone.                                                    (AudioSpec)    *)
(***************************************************************************)
C11_OutOfRangeStringAborts ==
    (last_event.handler = "fret_clicked"
     /\ last_event.string \notin 0..(STRING_COUNT - 1))
    => last_event.outcome = "panicked"

(***************************************************************************)
(* C12  is_fret_marked is true exactly for the frets 3, 5, 7, 9, 12, 15,   *)
(* 17, 19 and 21 and false for every other fret (0 .. 24 and beyond); it   *)
(* takes no key and no scale.                               (PitchSpec)    *)
(***************************************************************************)
C12_MarkedFrets ==
    pure_call.op = "is_fret_marked"
    => pure_ret = (pure_call.fret \in {3, 5, 7, 9, 12, 15, 17, 19, 21})

\* Fret 12 was asked for and is marked.
C12_Witness ==
    /\ pure_call.op = "is_fret_marked"
    /\ pure_call.fret = 12
    /\ pure_ret = TRUE

(***************************************************************************)
(* C13  calculate_frequency is equal temperament anchored at A4 = 440 Hz:  *)
(* A4 is within 0.1 Hz of 440, C4 within 0.5 Hz of 261.63, and every valid *)
(* note has a strictly positive frequency.  Frequencies are in millihertz. *)
(*                                                          (PitchSpec)    *)
(***************************************************************************)
Within(x, centre, tolerance) == x - centre < tolerance /\ centre - x < tolerance

C13_EqualTemperament ==
    pure_call.op = "calculate_frequency"
    => /\ pure_ret > 0
       /\ (pure_call.note = [note |-> "A", octave |-> 4]
           => Within(pure_ret, 440000, 100))
       /\ (pure_call.note = [note |-> "C", octave |-> 4]
           => Within(pure_ret, 261630, 500))

\* C4 was converted and came out within half a hertz of 261.63 Hz.
C13_Witness ==
    /\ pure_call.op = "calculate_frequency"
    /\ pure_call.note = [note |-> "C", octave |-> 4]
    /\ Within(pure_ret, 261630, 500)

(***************************************************************************)
(* C14  The single-flight flag is released on every exit of a body that    *)
(* acquired it, by return and by panic, and a dropped request does not     *)
(* touch it: the flag is set exactly while a body is in flight, and a      *)
(* request that arrives when none is in flight is accepted. (GridSpec)     *)
(***************************************************************************)
C14_GuardReleased ==
    /\ [](UPDATING_FRET_DATA <=> frames # <<>>)
    /\ [][(Len(frames') < Len(frames)) => ~UPDATING_FRET_DATA']_vars
    /\ [][(Request /\ frames # <<>>) => UNCHANGED UPDATING_FRET_DATA]_vars
    /\ [][(Request /\ frames = <<>>)
            => (last_event'.outcome = "accepted" /\ Len(frames') = 1)]_vars

\* A recompute has finished and the request after it was accepted.
C14_Witness ==
    /\ last_grid.done
    /\ Len(frames) = 1
    /\ frames[1].next = 0
    /\ UPDATING_FRET_DATA
    /\ last_event.outcome = "accepted"

\* A body was left by a panic and the flag is clear.
C14_WitnessPanic ==
    /\ panic = "update"
    /\ frames = <<>>
    /\ ~UPDATING_FRET_DATA

(***************************************************************************)
(* C15  A tone is bounded by the caller, not by the generator: the sine    *)
(* generator always yields a sample and its index counts up from 0, each   *)
(* play queues a source cut to 300 ms at 44100 Hz = 13230 samples, and if  *)
(* play requests stop coming the queue eventually stays empty.             *)
(* (AudioLiveSpec)                                                         *)
(***************************************************************************)
Idle == sink = <<>>

\* The process has ended by a panic; nothing runs after it.
Ended == run_pc = "panicked"

C15_ToneBounded ==
    /\ [](\A i \in DOMAIN sink :
            /\ SineWave_next(sink[i]).item = "Some"
            /\ SineWave_next(sink[i]).source.current_sample
                 = sink[i].current_sample + 1
            /\ sink[i].current_sample + sink[i].remaining = 13230
            /\ sink[i].remaining > 0
            /\ TakeDuration_take(sink[i], 1) = TakeDuration_next(sink[i]).source)
    /\ [][(Played' /\ last_event' # last_event /\ sink' # <<>>)
            => /\ sink'[Len(sink')].current_sample = 0
               /\ sink'[Len(sink')].remaining = 13230]_vars
    /\ ([]<><<\E string \in ClickStrings, fret \in ClickFrets :
                 on_fret_clicked(string, fret)>>_vars
        \/ <>[](Idle \/ Ended))

\* A tone has been partly rendered: the generator's index has advanced and
\* samples remain.
C15_Witness ==
    /\ sink # <<>>
    /\ sink[1].current_sample > 0
    /\ sink[1].remaining > 0
    /\ ~Ended

(***************************************************************************)
(* C16  With key-selected and scale-selected events handled one at a time: *)
(* once a recompute has finished and none is in flight, the six displayed  *)
(* rows are the full grid of the currently selected key and scale; an      *)
(* event that changes the selection starts a recompute of the new          *)
(* selection; an event that repeats the selection starts none and leaves   *)
(* the grid as it is.                                       (GridSeqSpec)  *)
(***************************************************************************)
RepeatEvent ==
    \/ \E key_int \in KeyInts : key_int = selected_key /\ on_key_selected(key_int)
    \/ \E scale_int \in ScaleInts :
          scale_int = selected_scale /\ on_scale_selected(scale_int)

C16_GridFollowsSelection ==
    /\ []((last_grid.done /\ frames = <<>> /\ panic = "none")
          => /\ GridOf(string_data, Key_from_int(selected_key),
                       Scale_from_int(selected_scale))
             /\ string_data = last_grid.rows)
    /\ [][Request
            => /\ Len(frames') = 1
               /\ frames'[1].key = Key_from_int(selected_key')
               /\ frames'[1].scale = Scale_from_int(selected_scale')]_vars
    /\ [][RepeatEvent
            => /\ last_event'.outcome = "unchanged"
               /\ UNCHANGED grid_vars]_vars

\* The selection went to key 4 (E) and scale 2, the recompute finished, and an
\* event repeating the selection came after it.
C16_Witness ==
    /\ last_grid.done
    /\ frames = <<>>
    /\ panic = "none"
    /\ selected_key = 4
    /\ selected_scale = 2
    /\ last_grid.key = "E"
    /\ last_event.outcome = "unchanged"
    /\ GridOf(string_data, "E", Scale_from_int(2))

====
